---- MODULE Spec2Model ----
(***************************************************************************)
(* MOPUp: the updater's main() (version discovery, candidate selection,    *)
(* update decision, installer hand-off) and do_download() (staging,        *)
(* streaming, publish by rename, rollback), from src/src/mopup/__init__.py.*)
(*                                                                         *)
(* Python values are encoded as follows.                                   *)
(*   - a packaging Version is a record [major, minor, micro, pre]; pre = 0 *)
(*     is a final release (Version.pre is None), pre = k > 0 is the        *)
(*     release candidate rc<k>;                                            *)
(*   - a str of digits (the macOS tag captured by the (\d+) group) is the  *)
(*     sequence of its digits, so "10" is <<1, 0>>; str comparison is the  *)
(*     lexicographic order of these sequences;                             *)
(*   - a tuple of int is a sequence of numbers, compared as Python does;   *)
(*   - a local that is not assigned yet, or a path with no file, is the    *)
(*     empty set; once assigned it is a one-element set;                   *)
(*   - a file's content is the sequence of the chunks written to it.       *)
(***************************************************************************)
EXTENDS Integers, Sequences, FiniteSets

\* Largest number of package links the remote listing serves (SpecSel).
MaxLinks == 2
\* Largest number of chunks the server's body is cut into.
MaxChunks == 2

VARIABLES
    \* the environment main() reads
    listing,            \* package links served by python.org/ftp/python/
    thispkgver,         \* Version built from sys.version_info
    this_mac_ver,       \* tuple(map(int, mac_ver()[0].split(".")[:2]))
    minor_upgrade, force, dry_run, interactive,     \* main()'s arguments
    \* the environment do_download() reads and writes
    stream,             \* the chunks response.iter_content() will yield
    has_content_length, \* "content-length" in response.headers
    finalfile,          \* ~/Downloads/<basename>: {} or {content}
    partialdir,         \* ~/Downloads/<basename>.mopup-partial exists
    leftovers,          \* files in partialdir that are not this run's
    contentfile,        \* partialdir/<uuid4>.content: {} or {content}
    \* main()'s locals
    versions, newminor, newmicro, best_available_mac,
    best_ver, download_url, update_needed, finalname,
    \* control
    pc,                 \* the statement main() / do_download() is at
    dlstate,            \* do_download: "idle", "running", "returned", "raised"
    sent,               \* chunks iter_content() has yielded so far
    exc,                \* the exception the except clause caught ("" if none)
    failed_at,          \* the statement of the try body that raised it
    error,              \* the exception propagating to the caller ("" if none)
    published,          \* rename(contentname, finalname) has succeeded
    download_invoked,   \* main() has called do_download
    installer_invoked   \* main() has run the installer

envvars == <<listing, thispkgver, this_mac_ver, minor_upgrade, force,
             dry_run, interactive, stream, has_content_length>>
fsvars == <<finalfile, partialdir, leftovers, contentfile>>
selvars == <<versions, newminor, newmicro, best_available_mac,
             best_ver, download_url, update_needed>>
dlvars == <<dlstate, sent, exc, failed_at, published>>
vars == <<envvars, fsvars, selvars, dlvars, finalname, pc, error,
          download_invoked, installer_invoked>>

----------------------------------------------------------------------------
\* Python's orderings and conversions

\* int(s) of a str of decimal digits.
RECURSIVE IntOf(_)
IntOf(s) ==
    IF s = <<>> THEN 0
    ELSE IntOf(SubSeq(s, 1, Len(s) - 1)) * 10 + s[Len(s)]

\* a < b for two tuples of int, or for two str of digits: the first differing
\* item decides, and a proper prefix is smaller.
RECURSIVE LexLess(_, _)
LexLess(a, b) ==
    IF a = <<>> THEN b # <<>>
    ELSE IF b = <<>> THEN FALSE
    ELSE IF a[1] # b[1] THEN a[1] < b[1]
    ELSE LexLess(Tail(a), Tail(b))

\* max() of a non-empty collection of int.
SetMax(S) == CHOOSE x \in S : \A y \in S : y <= x

\* max() of a non-empty collection of str.
StrMax(S) == CHOOSE t \in S : \A u \in S : ~LexLess(t, u)

\* Version.__lt__: the release tuple first, then a pre-release below the final
\* release of the same tuple and pre-releases by serial.
VersionLess(a, b) ==
    LET ra == <<a.major, a.minor, a.micro>>
        rb == <<b.major, b.minor, b.micro>>
    IN  \/ LexLess(ra, rb)
        \/ /\ ra = rb
           /\ a.pre # 0
           /\ (b.pre = 0 \/ a.pre < b.pre)

----------------------------------------------------------------------------
\* The inputs the model draws from

Ver(ma, mi, mc, p) == [major |-> ma, minor |-> mi, micro |-> mc, pre |-> p]

T9 == <<9>>
T10 == <<1, 0>>
T11 == <<1, 1>>
Tags == {T9, T10, T11}

\* Release folders "<major>.<minor>.<micro>/" matched by the pattern ver.
Folders == {<<3, 10, 9>>, <<3, 11, 4>>, <<3, 11, 6>>, <<3, 12, 0>>, <<2, 11, 6>>}

\* A package link: the folder it is listed in, the version and the macOS tag
\* captured from its file name by the pattern macpkg.
Link(f, v, t) == [folder |-> f, ver |-> v, macver |-> t]

WellLabelledLinks ==
    {Link(f, Ver(f[1], f[2], f[3], p), t) : f \in Folders, p \in {0, 1}, t \in Tags}

\* File names whose version is not the version of the folder listing them.
MislabelledLinks ==
    {Link(<<3, 11, 6>>, Ver(3, 11, 7, 0), T11),
     Link(<<3, 12, 0>>, Ver(3, 13, 0, 0), T9)}

Links == WellLabelledLinks \cup MislabelledLinks

\* The listings the orchestration runs are checked on (Spec).
MainLinks ==
    {Link(<<3, 11, 4>>, Ver(3, 11, 4, 0), T11),
     Link(<<3, 11, 6>>, Ver(3, 11, 6, 0), T11),
     Link(<<3, 11, 6>>, Ver(3, 11, 6, 1), T11)}

InstalledVersions == {Ver(3, 11, 5, 0), Ver(3, 11, 5, 1)}

Hosts == {<<10, 9>>, <<12, 6>>}

\* The subsets of S with at most n elements.
RECURSIVE SubsetsUpTo(_, _)
SubsetsUpTo(S, n) ==
    IF n = 0 THEN {{}}
    ELSE LET smaller == SubsetsUpTo(S, n - 1)
         IN  smaller \cup {s \cup {x} : s \in smaller, x \in S}

\* The body served for the package: chunk i is the number i.
Body(n) == [i \in 1..n |-> i]

\* A complete file published under the final name by an earlier run.
OldFile == <<0>>

\* A content file that an earlier, killed run left in the staging directory.
StaleContent == "stale.content"

----------------------------------------------------------------------------
\* main(): building the index (lines 76-124)

thismajor == thispkgver.major
thisminor == thispkgver.minor

\* The element of a one-element set.
The(S) == CHOOSE x \in S : TRUE

\* line 106: "if major != thismajor: continue" does not skip the folder.
MajorMatches(l) == l.folder[1] = thismajor

\* line 108: "if minor != thisminor and not minor_upgrade: continue" does not
\* skip the folder.
MinorEligible(l) == ~(l.folder[2] # thisminor /\ ~minor_upgrade)

\* The pre-release test of line 113 left out.
PrereleaseNeverSkipped(l) == TRUE

\* line 113: "if fullversion.pre and not thispkgver.pre: continue" does not
\* skip the package.
PrereleaseAllowed(l) == ~(l.ver.pre # 0 /\ thispkgver.pre = 0)

\* lines 115-123: the file name's release tuple is the folder's.
FilenameMatchesFolder(l) == <<l.ver.major, l.ver.minor, l.ver.micro>> = l.folder

\* The package link is appended to versions[major][minor][micro][macver].
Indexed(l) ==
    /\ MajorMatches(l)
    /\ MinorEligible(l)
    /\ PrereleaseAllowed(l)
    /\ FilenameMatchesFolder(l)

\* versions[thismajor].keys()
MinorKeys == {l.folder[2] : l \in {x \in versions : x.folder[1] = thismajor}}

\* versions[thismajor][mi].keys()
MicroKeys(mi) ==
    {l.folder[3] : l \in {x \in versions : x.folder[1] = thismajor /\ x.folder[2] = mi}}

\* versions[thismajor][mi][mc][t], and the keys t for which it is not empty
DownloadUrls(mi, mc, t) ==
    {x \in versions : x.folder = <<thismajor, mi, mc>> /\ x.macver = t}

MacKeys(mi, mc) == {x.macver : x \in {y \in versions : y.folder = <<thismajor, mi, mc>>}}

\* tuple(int(x) for x in available_mac_ver.split(".")): the tag is captured by
\* (\d+), so split(".") yields the tag itself.
TagTuple(t) == <<IntOf(t)>>

\* The host test of line 132 left out.
CompatibleWithAnyHost(t) == TRUE

\* line 132: this_mac_ver >= tuple(...)
Compatible(t) == ~LexLess(this_mac_ver, TagTuple(t))

\* lines 129-133: max() of the compatible tags, which are str.
BestAvailableMac(tags) == StrMax(tags)

\* lines 104-124: the two nested loops over the listing.
FetchIndex ==
    /\ pc = "crawl"
    /\ versions' = {l \in listing : Indexed(l)}
    /\ pc' = "select_release"
    /\ UNCHANGED <<envvars, fsvars, dlvars, newminor, newmicro,
                   best_available_mac, best_ver, download_url, update_needed,
                   finalname, error, download_invoked, installer_invoked>>

\* lines 28-30: requests.get in alllinksin raises; nothing catches it.
FetchIndexFails ==
    /\ pc = "crawl"
    /\ error' = "RequestException"
    /\ pc' = "raised"
    /\ UNCHANGED <<envvars, fsvars, dlvars, selvars, finalname,
                   download_invoked, installer_invoked>>

\* lines 126-127: max() of an empty sequence raises ValueError.
SelectRelease ==
    /\ pc = "select_release"
    /\ IF MinorKeys = {}
       THEN /\ error' = "ValueError"
            /\ pc' = "raised"
            /\ UNCHANGED <<newminor, newmicro>>
       ELSE /\ newminor' = {SetMax(MinorKeys)}
            /\ newmicro' = {SetMax(MicroKeys(SetMax(MinorKeys)))}
            /\ pc' = "select_platform"
            /\ UNCHANGED error
    /\ UNCHANGED <<envvars, fsvars, dlvars, versions, best_available_mac,
                   best_ver, download_url, update_needed, finalname,
                   download_invoked, installer_invoked>>

\* lines 128-133
SelectPlatform ==
    /\ pc = "select_platform"
    /\ LET available_mac_vers == MacKeys(The(newminor), The(newmicro))
           compatible == {t \in available_mac_vers : Compatible(t)}
       IN  IF compatible = {}
           THEN /\ error' = "ValueError"
                /\ pc' = "raised"
                /\ UNCHANGED best_available_mac
           ELSE /\ best_available_mac' = {BestAvailableMac(compatible)}
                /\ pc' = "select_best"
                /\ UNCHANGED error
    /\ UNCHANGED <<envvars, fsvars, dlvars, versions, newminor, newmicro,
                   best_ver, download_url, update_needed, finalname,
                   download_invoked, installer_invoked>>

\* lines 135-149
SelectBest ==
    /\ pc = "select_best"
    /\ LET download_urls ==
               DownloadUrls(The(newminor), The(newmicro), The(best_available_mac))
           first == CHOOSE l \in download_urls :
                        \A w \in download_urls : ~VersionLess(l.ver, w.ver)
       IN  /\ best_ver' = {first.ver}
           /\ download_url' = {first}
           /\ update_needed' = VersionLess(thispkgver, first.ver)
    /\ pc' = "decide"
    /\ UNCHANGED <<envvars, fsvars, dlvars, versions, newminor, newmicro,
                   best_available_mac, finalname, error, download_invoked,
                   installer_invoked>>

\* The early return of line 151 without its dry_run operand.
SkipUpdateIgnoringDryRun == ~(update_needed \/ force)

\* line 151: the condition of the early return.
SkipUpdate == dry_run \/ ~(update_needed \/ force)

\* lines 151-154: return, or call do_download(download_url).
Decide ==
    /\ pc = "decide"
    /\ IF SkipUpdate
       THEN /\ pc' = "done"
            /\ UNCHANGED <<dlstate, download_invoked>>
       ELSE /\ pc' = "dl_get"
            /\ dlstate' = "running"
            /\ download_invoked' = TRUE
    /\ UNCHANGED <<envvars, fsvars, selvars, sent, exc, failed_at, published,
                   finalname, error, installer_invoked>>

----------------------------------------------------------------------------
\* do_download() (lines 176-212)

\* lines 189-192: the response is open and its status is good.
Get ==
    /\ pc = "dl_get"
    /\ pc' = "dl_makedirs"
    /\ UNCHANGED <<envvars, fsvars, selvars, dlvars, finalname, error,
                   download_invoked, installer_invoked>>

\* lines 189-192: requests.get or raise_for_status raises, outside the try.
GetFails ==
    /\ pc = "dl_get"
    /\ error' = "RequestException"
    /\ dlstate' = "raised"
    /\ pc' = "raised"
    /\ UNCHANGED <<envvars, fsvars, selvars, sent, exc, failed_at, published,
                   finalname, download_invoked, installer_invoked>>

\* line 194: makedirs(partialdir, exist_ok=True)
Makedirs ==
    /\ pc = "dl_makedirs"
    /\ partialdir' = TRUE
    /\ pc' = "dl_header"
    /\ UNCHANGED <<envvars, finalfile, leftovers, contentfile, selvars, dlvars,
                   finalname, error, download_invoked, installer_invoked>>

\* line 195: response.headers["content-length"] raises KeyError when the
\* header is missing; the except clause of line 206 catches it.
ReadContentLength ==
    /\ pc = "dl_header"
    /\ IF has_content_length
       THEN /\ pc' = "dl_open"
            /\ UNCHANGED <<exc, failed_at>>
       ELSE /\ exc' = "KeyError"
            /\ failed_at' = "dl_header"
            /\ pc' = "dl_except_unlink"
    /\ UNCHANGED <<envvars, fsvars, selvars, dlstate, sent, published,
                   finalname, error, download_invoked, installer_invoked>>

\* line 196: open(contentname, "wb") creates the empty content file.
OpenContent ==
    /\ pc = "dl_open"
    /\ contentfile' = {<<>>}
    /\ pc' = "dl_stream"
    /\ UNCHANGED <<envvars, finalfile, partialdir, leftovers, selvars, dlvars,
                   finalname, error, download_invoked, installer_invoked>>

\* The loop of line 201 left after its first chunk.
StreamCutShort == sent = Len(stream) \/ sent >= 1

\* line 201: iter_content() has no further chunk.
StreamExhausted == sent = Len(stream)

\* lines 201-203: one iteration of the loop appends the next chunk.
WriteChunk ==
    /\ pc = "dl_stream"
    /\ ~StreamExhausted
    /\ sent' = sent + 1
    /\ contentfile' = {Append(The(contentfile), stream[sent + 1])}
    /\ UNCHANGED <<envvars, finalfile, partialdir, leftovers, selvars, dlstate,
                   exc, failed_at, published, finalname, pc, error,
                   download_invoked, installer_invoked>>

\* lines 201-204: the loop ends, the with blocks close the file.
StreamEnds ==
    /\ pc = "dl_stream"
    /\ StreamExhausted
    /\ pc' = "dl_rename"
    /\ UNCHANGED <<envvars, fsvars, selvars, dlvars, finalname, error,
                   download_invoked, installer_invoked>>

\* line 205: rename(contentname, finalname) replaces the final path at once.
Rename ==
    /\ pc = "dl_rename"
    /\ finalfile' = contentfile
    /\ contentfile' = {}
    /\ published' = TRUE
    /\ pc' = "dl_renamed"
    /\ UNCHANGED <<envvars, partialdir, leftovers, selvars, dlstate, sent, exc,
                   failed_at, finalname, error, download_invoked,
                   installer_invoked>>

\* line 210: the try body ended without an exception.
TryEnds ==
    /\ pc = "dl_renamed"
    /\ pc' = "dl_else_rmdir"
    /\ UNCHANGED <<envvars, fsvars, selvars, dlvars, finalname, error,
                   download_invoked, installer_invoked>>

\* The exceptions a statement of the try body (lines 194-205) can raise apart
\* from the KeyError of line 195: a disk error of a file system call, a
\* network error of iter_content(), a KeyboardInterrupt anywhere.
Failures(at) ==
    {"KeyboardInterrupt"}
        \cup (IF at \in {"dl_makedirs", "dl_open", "dl_stream", "dl_rename"}
              THEN {"OSError[EIO]"} ELSE {})
        \cup (IF at = "dl_stream" THEN {"ConnectionError"} ELSE {})

\* line 206: except BaseException catches whatever the try body raised.
TryBodyRaises ==
    /\ pc \in {"dl_makedirs", "dl_header", "dl_open", "dl_stream",
               "dl_rename", "dl_renamed"}
    /\ \E e \in Failures(pc) : exc' = e
    /\ failed_at' = pc
    /\ pc' = "dl_except_unlink"
    /\ UNCHANGED <<envvars, fsvars, selvars, dlstate, sent, published,
                   finalname, error, download_invoked, installer_invoked>>

\* What rmdir(partialdir) raises ("" when it removes the directory).
RmdirError ==
    IF ~partialdir THEN "FileNotFoundError"
    ELSE IF leftovers # {} \/ contentfile # {} THEN "OSError[ENOTEMPTY]"
    ELSE ""

\* line 207: unlink(contentname) raises FileNotFoundError when the content
\* file is not there; that exception leaves do_download.
ExceptUnlink ==
    /\ pc = "dl_except_unlink"
    /\ IF contentfile # {}
       THEN /\ contentfile' = {}
            /\ pc' = "dl_except_rmdir"
            /\ UNCHANGED <<error, dlstate>>
       ELSE /\ error' = "FileNotFoundError"
            /\ dlstate' = "raised"
            /\ pc' = "raised"
            /\ UNCHANGED contentfile
    /\ UNCHANGED <<envvars, finalfile, partialdir, leftovers, selvars, sent,
                   exc, failed_at, published, finalname, download_invoked,
                   installer_invoked>>

\* lines 208-209: rmdir(partialdir), then raise re-raises the caught one.
ExceptRmdir ==
    /\ pc = "dl_except_rmdir"
    /\ IF RmdirError = ""
       THEN /\ partialdir' = FALSE
            /\ error' = exc
       ELSE /\ error' = RmdirError
            /\ UNCHANGED partialdir
    /\ dlstate' = "raised"
    /\ pc' = "raised"
    /\ UNCHANGED <<envvars, finalfile, leftovers, contentfile, selvars, sent,
                   exc, failed_at, published, finalname, download_invoked,
                   installer_invoked>>

\* lines 210-212: rmdir(partialdir); return finalname to line 154.
ElseRmdir ==
    /\ pc = "dl_else_rmdir"
    /\ IF RmdirError = ""
       THEN /\ partialdir' = FALSE
            /\ finalname' = {"finalname"}
            /\ dlstate' = "returned"
            /\ pc' = "install"
            /\ UNCHANGED error
       ELSE /\ error' = RmdirError
            /\ dlstate' = "raised"
            /\ pc' = "raised"
            /\ UNCHANGED <<partialdir, finalname>>
    /\ UNCHANGED <<envvars, finalfile, leftovers, contentfile, selvars, sent,
                   exc, failed_at, published, download_invoked,
                   installer_invoked>>

----------------------------------------------------------------------------
\* main(): the hand-off to the installer (lines 155-173)

\* lines 156-157, 172: open -b com.apple.installer finalname
OpenInstaller ==
    /\ pc = "install"
    /\ interactive
    /\ installer_invoked' = TRUE
    /\ pc' = "done"
    /\ UNCHANGED <<envvars, fsvars, selvars, dlvars, finalname, error,
                   download_invoked>>

\* line 159, lines 42-71: choicechanges(finalname) lists the installed
\* packages, then runs installer -showChoiceChangesXML on the package.
Choicechanges ==
    /\ pc = "install"
    /\ ~interactive
    /\ installer_invoked' = TRUE
    /\ pc' = "run_installer"
    /\ UNCHANGED <<envvars, fsvars, selvars, dlvars, finalname, error,
                   download_invoked>>

\* lines 42-52: the run of the package lister raises (the program is not
\* there), before the installer is run.
ChoicechangesFails ==
    /\ pc = "install"
    /\ ~interactive
    /\ error' = "FileNotFoundError"
    /\ pc' = "raised"
    /\ UNCHANGED <<envvars, fsvars, selvars, dlvars, finalname,
                   download_invoked, installer_invoked>>

\* lines 160-173: sudo installer -applyChoiceChangesXML ... -pkg finalname
RunInstaller ==
    /\ pc = "run_installer"
    /\ pc' = "done"
    /\ UNCHANGED <<envvars, fsvars, selvars, dlvars, finalname, error,
                   download_invoked, installer_invoked>>

----------------------------------------------------------------------------
\* The specifications

\* main()'s locals and do_download's state before the first statement.
Start ==
    /\ versions = {}
    /\ newminor = {}
    /\ newmicro = {}
    /\ best_available_mac = {}
    /\ best_ver = {}
    /\ download_url = {}
    /\ update_needed = FALSE
    /\ finalname = {}
    /\ contentfile = {}
    /\ pc = "crawl"
    /\ dlstate = "idle"
    /\ sent = 0
    /\ exc = ""
    /\ failed_at = ""
    /\ error = ""
    /\ published = FALSE
    /\ download_invoked = FALSE
    /\ installer_invoked = FALSE

\* A run of main() with any arguments, on a listing of the installed minor
\* line, with any state of the downloads directory and any response.
Init ==
    /\ listing \in SUBSET MainLinks
    /\ thispkgver \in InstalledVersions
    /\ this_mac_ver \in Hosts
    /\ minor_upgrade \in BOOLEAN
    /\ force \in BOOLEAN
    /\ dry_run \in BOOLEAN
    /\ interactive \in BOOLEAN
    /\ stream \in {Body(n) : n \in 0..MaxChunks}
    /\ has_content_length \in BOOLEAN
    /\ finalfile \in {{}, {OldFile}}
    /\ partialdir \in BOOLEAN
    /\ leftovers \in (IF partialdir THEN {{}, {StaleContent}} ELSE {{}})
    /\ Start

Next ==
    \/ FetchIndex
    \/ FetchIndexFails
    \/ SelectRelease
    \/ SelectPlatform
    \/ SelectBest
    \/ Decide
    \/ Get
    \/ GetFails
    \/ Makedirs
    \/ ReadContentLength
    \/ OpenContent
    \/ WriteChunk
    \/ StreamEnds
    \/ Rename
    \/ TryEnds
    \/ TryBodyRaises
    \/ ExceptUnlink
    \/ ExceptRmdir
    \/ ElseRmdir
    \/ OpenInstaller
    \/ Choicechanges
    \/ ChoicechangesFails
    \/ RunInstaller

Spec == Init /\ [][Next]_vars

\* A dry run of main() (detect only) on any listing of at most MaxLinks
\* package links.
InitSel ==
    /\ listing \in SubsetsUpTo(Links, MaxLinks)
    /\ thispkgver \in InstalledVersions
    /\ this_mac_ver \in Hosts
    /\ minor_upgrade \in BOOLEAN
    /\ force = FALSE
    /\ dry_run = TRUE
    /\ interactive = FALSE
    /\ stream = Body(0)
    /\ has_content_length = TRUE
    /\ finalfile = {}
    /\ partialdir = FALSE
    /\ leftovers = {}
    /\ Start

\* The statements a dry run executes.
NextSel ==
    \/ FetchIndex
    \/ FetchIndexFails
    \/ SelectRelease
    \/ SelectPlatform
    \/ SelectBest
    \/ Decide

SpecSel == InitSel /\ [][NextSel]_vars

----------------------------------------------------------------------------
\* The claims

\* main() has executed the test of line 151.
Decided == download_url # {} /\ pc # "decide"

\* do_download has returned or raised.
Ended == dlstate \in {"returned", "raised"}

\* The tags on offer for the release selection chose.
OfferedTags ==
    {l.macver : l \in {x \in versions :
        /\ newminor # {}
        /\ newmicro # {}
        /\ x.folder = <<thismajor, The(newminor), The(newmicro)>>}}

\* The tag, read as a number, is at or below the host's version.
AtOrBelowHost(t) == IntOf(t) <= this_mac_ver[1]

\* C1: in every state of a run, the final path is absent or holds a complete
\* file (the whole body, or the file an earlier run published): never a
\* proper prefix of the body.
C1_FinalPathNeverPartial ==
    \A f \in finalfile : f = OldFile \/ f = stream

\* C1: a run that failed in the middle of the body.
C1_FailedMidStream ==
    /\ dlstate = "raised"
    /\ failed_at = "dl_stream"
    /\ sent >= 1
    /\ sent < Len(stream)

\* C2: when do_download raises because a step after the creation of the
\* staging directory failed during staging or streaming, then the final path
\* holds nothing of this run, the content file is gone and the staging
\* directory is gone. (A final file published by an earlier run is not held
\* against the claim.)
C2_FailedRunLeavesNothing ==
    (dlstate = "raised" /\ failed_at \in {"dl_header", "dl_open", "dl_stream"})
        => /\ finalfile \subseteq {OldFile}
           /\ contentfile = {}
           /\ ~partialdir

\* C3: when the body was streamed without error and the content file renamed
\* to the final path, do_download returns the final path, the final path
\* exists and (for a body that is not empty) is not empty, and the staging
\* directory does not exist.
C3_PublishedRunReturnsClean ==
    (published /\ exc = "" /\ Ended)
        => /\ dlstate = "returned"
           /\ finalname # {}
           /\ finalfile # {}
           /\ (stream # <<>> => finalfile # {<<>>})
           /\ ~partialdir

\* C4: do_download is invoked exactly when main() reached its decision with
\* dry_run false and (update_needed or force) true; the installer is invoked
\* only after do_download returned; a dry run neither downloads nor installs.
C4_DownloadIffNeededAndNotDryRun ==
    /\ download_invoked <=> (Decided /\ ~dry_run /\ (update_needed \/ force))
    /\ installer_invoked => dlstate = "returned"
    /\ dry_run => (~download_invoked /\ ~installer_invoked)

\* C4: a forced run with no update needed went through to the installer.
C4_ForcedRunInstalled ==
    /\ pc = "done"
    /\ installer_invoked
    /\ force
    /\ ~update_needed

\* C5: when the installed version is a final release, the version selection
\* chose is not a pre-release.
C5_FinalNeverSelectsPrerelease ==
    thispkgver.pre = 0 => \A v \in best_ver : v.pre = 0

\* C5: a final installed version, a candidate chosen, and a pre-release listed
\* for the very release and tag that were chosen.
C5_PrereleaseOnOffer ==
    /\ thispkgver.pre = 0
    /\ best_ver # {}
    /\ \E l \in listing :
        /\ l.ver.pre # 0
        /\ l.folder = <<thismajor, The(newminor), The(newmicro)>>
        /\ l.macver \in best_available_mac
        /\ FilenameMatchesFolder(l)

\* C6: the tag selection chose is, as a number, at or below the host's
\* version; and when no tag on offer for the chosen release is, selection
\* has failed and there is no candidate.
C6_TagAtOrBelowHost ==
    /\ \A t \in best_available_mac : AtOrBelowHost(t)
    /\ (/\ newmicro # {}
        /\ pc # "select_platform"
        /\ \A t \in OfferedTags : ~AtOrBelowHost(t))
           => (pc = "raised" /\ best_available_mac = {} /\ download_url = {})

\* C6: a candidate was chosen although a tag above the host's version was on
\* offer for the chosen release.
C6_HigherTagOnOffer ==
    /\ download_url # {}
    /\ \E t \in OfferedTags : ~AtOrBelowHost(t)

\* C7: the minor selection chose is the installed minor when minor_upgrade is
\* false, and is not below the installed minor when minor_upgrade is true.
C7_MinorNeverLower ==
    \A m \in newminor :
        IF minor_upgrade THEN m >= thisminor ELSE m = thisminor

\* C8: the tag selection chose is the greatest, as a number, of the tags on
\* offer for the chosen release that are at or below the host's version.
C8_GreatestCompatibleTag ==
    \A t \in best_available_mac :
        \A u \in OfferedTags : AtOrBelowHost(u) => IntOf(u) <= IntOf(t)

\* C9: when the response has no content-length and nothing else fails,
\* do_download returns and the final path holds the whole body.
C9_MissingHeaderStillPublishes ==
    (/\ ~has_content_length
     /\ Ended
     /\ exc \in {"", "KeyError"}
     /\ error # "RequestException")
        => (dlstate = "returned" /\ finalfile = {stream})

\* C10: when do_download raises after a failure in the try body, the
\* exception that reaches the caller is that failure.
C10_OriginalFailureReraised ==
    (dlstate = "raised" /\ exc # "") => error = exc

====
